---- MODULE Spec2Model ----
(***************************************************************************)
(* Model of pyserini_ranking: the three rankers of rankers.py              *)
(* (PivotedLengthNormalizationRanker, BM25Ranker, CustomRanker) with their *)
(* memoization caches, rank_query and the __main__ script of main.py.      *)
(*                                                                         *)
(* Floating point values are modelled in fixed point (three decimals) with *)
(* the IEEE specials +inf, -inf and nan that numpy produces instead of     *)
(* raising; Python's own int/int division raises ZeroDivisionError.        *)
(***************************************************************************)
EXTENDS Integers, Sequences, FiniteSets, TLC

VARIABLES
    \* ---- the ranker instance (rankers.py) ----
    variant,          \* class of the ranker object: "plnr", "bm25", "custom", "none"
    n_docs,           \* self.n_docs
    n_terms,          \* self.n_terms (stats['total_terms'])
    avg_dl,           \* self.avg_dl
    docvec_cache,     \* self.docvec_cache
    freq_cache,       \* self.freq_cache
    positions_cache,  \* self.positions_cache
    hash_order,       \* iteration order of a set of terms in this process
    \* ---- observation of the index reader and of the calls ----
    docvec_lookups,   \* doc id -> number of index_reader.get_document_vector calls
    score_calls,      \* doc id -> number of score calls that referenced it
    last,             \* what the most recent score call did
    \* ---- the script (main.py) ----
    pc,               \* position of the script
    argc,             \* len(sys.argv)
    ranker_option,    \* sys.argv[1]
    queries_csv,      \* the data rows of the queries file
    queries,          \* the data frame the loop iterates
    qi,               \* number of rows the loop has completed
    doc_list,         \* the DocumentId column of documents.csv
    doc_score,        \* result of the latest rank_query
    call_log,         \* the score calls of the latest rank_query, in order
    doc_ranked,       \* the latest sorted(...) result
    ranking_file      \* content of ranking_<option>.txt, as written by this run

rankerVars == <<variant, n_docs, n_terms, avg_dl, docvec_cache, freq_cache,
                positions_cache, hash_order>>
obsVars == <<docvec_lookups, score_calls, last>>
mainVars == <<pc, argc, ranker_option, queries_csv, queries, qi, doc_list,
              doc_score, call_log, doc_ranked, ranking_file>>
vars == <<rankerVars, obsVars, mainVars>>

-----------------------------------------------------------------------------
(* Bounds of the model.                                                    *)

\* number of score calls in one behaviour of the ranker specification
MaxCalls == 2

-----------------------------------------------------------------------------
(* Numbers: fixed point with IEEE specials.                                *)

Scale == 10 * 10 * 10

Fin(v) == [k |-> "fin", v |-> v]
PInf == [k |-> "inf", v |-> 1]
NInf == [k |-> "inf", v |-> -1]
NaN == [k |-> "nan", v |-> 0]
Zero == Fin(0)
One == Fin(Scale)
FromInt(n) == Fin(n * Scale)

Sgn(v) == IF v > 0 THEN 1 ELSE IF v < 0 THEN -1 ELSE 0
Abs(v) == IF v < 0 THEN -v ELSE v
\* quotient rounded toward zero
Quot(a, b) == Sgn(a) * Sgn(b) * (Abs(a) \div Abs(b))

\* float addition
NAdd(x, y) ==
    IF x.k = "nan" \/ y.k = "nan" THEN NaN
    ELSE IF x.k = "inf" /\ y.k = "inf" THEN (IF x.v = y.v THEN x ELSE NaN)
    ELSE IF x.k = "inf" THEN x
    ELSE IF y.k = "inf" THEN y
    ELSE Fin(x.v + y.v)

\* float multiplication
NMul(x, y) ==
    IF x.k = "nan" \/ y.k = "nan" THEN NaN
    ELSE IF x.k = "inf" \/ y.k = "inf"
         THEN (IF Sgn(x.v) * Sgn(y.v) = 0 THEN NaN
               ELSE [k |-> "inf", v |-> Sgn(x.v) * Sgn(y.v)])
    ELSE Fin(Quot(x.v * y.v, Scale))

\* numpy float64 division: a zero divisor gives inf or nan, it does not raise
NDiv(x, y) ==
    IF x.k = "nan" \/ y.k = "nan" THEN NaN
    ELSE IF x.k = "inf" /\ y.k = "inf" THEN NaN
    ELSE IF x.k = "inf" THEN [k |-> "inf", v |-> x.v * (IF y.v < 0 THEN -1 ELSE 1)]
    ELSE IF y.k = "inf" THEN Zero
    ELSE IF y.v = 0 THEN (IF x.v = 0 THEN NaN ELSE [k |-> "inf", v |-> Sgn(x.v)])
    ELSE Fin(Quot(x.v * Scale, y.v))

\* natural logarithm of a positive fixed-point number: range reduction to
\* [1, 2) by halving/doubling, then 2*atanh((x-1)/(x+1)) to three terms
RECURSIVE LnFix(_, _)
LnFix(v, k) ==
    IF v >= 2 * Scale THEN LnFix(v \div 2, k + 1)
    ELSE IF v < Scale THEN LnFix(v * 2, k - 1)
    ELSE LET ln2 == 693
             y == ((v - Scale) * Scale) \div (v + Scale)
             y2 == (y * y) \div Scale
             y3 == (y * y2) \div Scale
             y5 == (y3 * y2) \div Scale
         IN  2 * (y + (y3 \div 3) + (y5 \div 5)) + k * ln2

\* np.log: log(0) = -inf and log(negative) = nan, with a warning, no exception
NLog(x) ==
    IF x.k = "nan" THEN NaN
    ELSE IF x.k = "inf" THEN (IF x.v > 0 THEN PInf ELSE NaN)
    ELSE IF x.v < 0 THEN NaN
    ELSE IF x.v = 0 THEN NInf
    ELSE Fin(LnFix(x.v, 0))

\* x < y on floats: every comparison with nan is False
NLt(x, y) ==
    IF x.k = "nan" \/ y.k = "nan" THEN FALSE
    ELSE IF x.k = "inf" THEN x.v < 0 /\ ~(y.k = "inf" /\ y.v < 0)
    ELSE IF y.k = "inf" THEN y.v > 0
    ELSE x.v < y.v

\* x >= y on floats
NGeq(x, y) ==
    IF x.k = "nan" \/ y.k = "nan" THEN FALSE
    ELSE x = y \/ NLt(y, x)

-----------------------------------------------------------------------------
(* The index behind index_reader: static for the lifetime of a run.        *)

Terms == {"a", "b", "c", "e"}
DocIds == {"1", "2", "3", "4"}

\* get_document_vector: term -> term frequency; document "4" is not in the index
IndexDocVectors ==
    [d \in {"1", "2", "3"} |->
        CASE d = "1" -> [t \in {"a", "b"} |-> IF t = "a" THEN 1 ELSE 2]
          [] d = "2" -> [t \in {"a", "b"} |-> IF t = "a" THEN 2 ELSE 1]
          [] d = "3" -> [t \in {"b", "c", "e"} |-> 1]]

\* get_term_positions: term -> token offsets
IndexTermPositions ==
    [d \in {"1", "2", "3"} |->
        CASE d = "1" -> [t \in {"a", "b"} |-> IF t = "a" THEN <<0>> ELSE <<1, 2>>]
          [] d = "2" -> [t \in {"a", "b"} |-> IF t = "a" THEN <<0, 2>> ELSE <<1>>]
          [] d = "3" -> [t \in {"b", "c", "e"} |->
                            IF t = "b" THEN <<0>> ELSE IF t = "c" THEN <<1>> ELSE <<2>>]]

\* get_term_counts: term -> <<df, cf>>; "c" is reported with df = 0 and the
\* lookup of "e" fails
IndexTermCounts ==
    [t \in {"a", "b", "c"} |->
        CASE t = "a" -> <<2, 3>>
          [] t = "b" -> <<3, 4>>
          [] t = "c" -> <<0, 0>>]

\* index_reader.stats()
IndexStats == [documents |-> 3, total_terms |-> 9]

\* the orders in which a set of terms can be iterated (fixed within a process)
HashOrders == {<<"a", "b", "c", "e">>, <<"e", "c", "b", "a">>}

-----------------------------------------------------------------------------
(* Helpers on sequences and mappings.                                      *)

Range(s) == {s[i] : i \in DOMAIN s}

\* F applied to the value of x, with x evaluated once
Eval(x, F(_)) == CHOOSE y \in {F(v) : v \in {x}} : TRUE

RECURSIVE SumOver(_, _)
SumOver(f, S) ==
    IF S = {} THEN 0
    ELSE LET x == CHOOSE y \in S : TRUE IN f[x] + SumOver(f, S \ {x})

\* the members of S in the order of the sequence ord
RECURSIVE InOrder(_, _)
InOrder(ord, S) ==
    IF ord = <<>> THEN <<>>
    ELSE IF Head(ord) \in S THEN <<Head(ord)>> \o InOrder(Tail(ord), S)
    ELSE InOrder(Tail(ord), S)

\* f with key k bound to v (dict item assignment)
Put(f, k, v) == [x \in DOMAIN f \cup {k} |-> IF x = k THEN v ELSE f[x]]

\* sum(doc_vector.values())
DocLength(doc_vector) == SumOver(doc_vector, DOMAIN doc_vector)

\* set(query).intersection(doc_vector.keys())
DocQuerySet(query, doc_vector) == Range(query) \cap DOMAIN doc_vector

\* query.count(term)
QueryCount(query, term) == Cardinality({i \in DOMAIN query : query[i] = term})

\* the mutant of QueryPosition that keeps the first index of a term
QueryPositionFirst(query) ==
    [t \in Range(query) |->
        (CHOOSE i \in DOMAIN query :
            query[i] = t /\ \A j \in DOMAIN query : query[j] = t => i <= j) - 1]

\* {k: v for v, k in enumerate(query)}: a later item overwrites an earlier one
QueryPosition(query) ==
    [t \in Range(query) |->
        (CHOOSE i \in DOMAIN query :
            query[i] = t /\ \A j \in DOMAIN query : query[j] = t => j <= i) - 1]

\* np.mean of a list of ints; the mean of an empty list is nan
NMean(s) ==
    IF s = <<>> THEN NaN
    ELSE Fin(Quot(SumOver(s, DOMAIN s) * Scale, Len(s)))

-----------------------------------------------------------------------------
(* Keyword defaults of the score methods, in thousandths.                  *)

PlnrB == 500
Bm25K1 == 1200
Bm25B == 300
Bm25K3 == 1500
CustomLmd == 600
CustomSm == 200

-----------------------------------------------------------------------------
(* The per-term formulas.  Each yields [raised, val]: raised is TRUE when  *)
(* the Python expression raises (ZeroDivisionError of int/int or           *)
(* float/float division, KeyError of a missing key).                       *)

Raised == [raised |-> TRUE, val |-> Zero]
Returned(v) == [raised |-> FALSE, val |-> v]

\* 1 - b + (b * doc_length / self.avg_dl), for self.avg_dl # 0
LengthNorm(b, doc_length, avdl) ==
    Fin(Scale - b + Quot(b * doc_length * Scale, avdl.v))

\* the mutant of PlnrTermScore whose norm_tf lacks the leading "1 +"
PlnrTermScoreLogOnly(query, doc_vector, term, df, self) ==
    LET qtf == QueryCount(query, term)
        tf == doc_vector[term]
        doc_length == DocLength(doc_vector)
    IN  IF self.avg_dl.v = 0 \/ df = 0 THEN Raised
        ELSE LET norm_tf == NDiv(NLog(NAdd(One, NLog(FromInt(tf)))),
                                 LengthNorm(PlnrB, doc_length, self.avg_dl))
                 idf == NLog(Fin(Quot((self.n_docs + 1) * Scale, df)))
             IN  Returned(NMul(NMul(FromInt(qtf), norm_tf), idf))

\* rankers.py 64-68
PlnrTermScore(query, doc_vector, term, df, self) ==
    LET qtf == QueryCount(query, term)
        tf == doc_vector[term]
        doc_length == DocLength(doc_vector)
    IN  IF self.avg_dl.v = 0 \/ df = 0 THEN Raised
        ELSE LET norm_tf == NDiv(NAdd(One, NLog(NAdd(One, NLog(FromInt(tf))))),
                                 LengthNorm(PlnrB, doc_length, self.avg_dl))
                 idf == NLog(Fin(Quot((self.n_docs + 1) * Scale, df)))
             IN  Returned(NMul(NMul(FromInt(qtf), norm_tf), idf))

\* rankers.py 112-117
Bm25TermScore(query, doc_vector, term, df, self) ==
    LET qtf == QueryCount(query, term)
        tf == doc_vector[term]
        doc_length == DocLength(doc_vector)
        half == Scale \div 2
    IN  IF self.avg_dl.v = 0 THEN Raised
        ELSE LET idf == NLog(NDiv(Fin((self.n_docs - df) * Scale + half),
                                  Fin(df * Scale + half)))
                 norm_tf == NDiv(NMul(Fin(Bm25K1 + Scale), FromInt(tf)),
                                 NAdd(NMul(Fin(Bm25K1),
                                           LengthNorm(Bm25B, doc_length, self.avg_dl)),
                                      FromInt(tf)))
                 norm_qtf == NDiv(NMul(Fin(Bm25K3 + Scale), FromInt(qtf)),
                                  NAdd(Fin(Bm25K3), FromInt(qtf)))
             IN  Returned(NMul(NMul(idf, norm_tf), norm_qtf))

\* query_position[term] / query_length
TrpQ(query, term) == Fin(Quot(QueryPosition(query)[term] * Scale, Len(query)))

\* np.log(np.log(doc_length + 1) / np.log(np.mean(doc_positions[term]) + 1))
TrpD(doc_length, positions) ==
    NLog(NDiv(NLog(FromInt(doc_length + 1)), NLog(NAdd(NMean(positions), One))))

\* (1 - lmd) * (ci * idf + sm), for df # 0 and self.n_terms # 0
CustomCollectionPart(df, cf, self) ==
    LET ci == NMul(Fin(Quot(cf * Scale, self.n_terms)),
                   Fin(Quot(self.n_docs * Scale, df)))
        idf == NLog(Fin(Quot(self.n_docs * Scale, df)))
    IN  NMul(Fin(Scale - CustomLmd), NAdd(NMul(ci, idf), Fin(CustomSm)))

\* qtf * trp_q * trp_d + sm
CustomDenominator(query, doc_vector, doc_positions, term) ==
    NAdd(NMul(NMul(FromInt(QueryCount(query, term)), TrpQ(query, term)),
              TrpD(DocLength(doc_vector), doc_positions[term])),
         Fin(CustomSm))

\* rankers.py 172-181
CustomTermScore(query, doc_vector, doc_positions, term, df, cf, self) ==
    LET tf == doc_vector[term]
    IN  IF term \notin DOMAIN doc_positions \/ self.n_terms = 0 \/ df = 0
        THEN Raised
        ELSE Returned(
                NAdd(NMul(Fin(CustomLmd),
                          NDiv(NLog(FromInt(tf)),
                               CustomDenominator(query, doc_vector,
                                                 doc_positions, term))),
                     CustomCollectionPart(df, cf, self)))

\* the formula of the ranker's class
TermScore(cls, query, doc_vector, doc_positions, term, df, cf, self) ==
    CASE cls = "plnr" -> PlnrTermScore(query, doc_vector, term, df, self)
      [] cls = "bm25" -> Bm25TermScore(query, doc_vector, term, df, self)
      [] cls = "custom" -> CustomTermScore(query, doc_vector, doc_positions,
                                           term, df, cf, self)

-----------------------------------------------------------------------------
(* score(query, doc_id) of the three classes.                              *)

\* the mutant of StoredCounts that stores the pair the wrong way round
StoredCountsSwapped(df, cf) == <<cf, df>>

\* the entry "self.freq_cache[term] = [df, cf]" stores
StoredCounts(df, cf) == <<df, cf>>

\* the mutant of InitialRankScore that starts from one
InitialRankScoreOne == One

\* rank_score = 0 at the head of score
InitialRankScore == Zero

\* one iteration of "for term in doc_query_set"; st carries freq_cache, the
\* terms looked up in the index, rank_score and the term_score of every
\* term visited
TermStep(cls, self, query, doc_vector, doc_positions, term, st) ==
    LET hit == term \in DOMAIN st.fq
        looked == IF hit THEN st.looked ELSE Append(st.looked, term)
    IN  IF ~hit /\ term \notin DOMAIN IndexTermCounts
        THEN [st EXCEPT !.raised = TRUE, !.looked = looked]
        ELSE
          LET counts == IF hit THEN st.fq[term] ELSE IndexTermCounts[term]
              fq == IF hit THEN st.fq ELSE Put(st.fq, term, StoredCounts(counts[1], counts[2]))
          IN  Eval(TermScore(cls, query, doc_vector, doc_positions, term,
                             counts[1], counts[2], self),
                   LAMBDA ts :
                     IF ts.raised
                     THEN [st EXCEPT !.raised = TRUE, !.looked = looked, !.fq = fq]
                     ELSE [raised |-> FALSE, fq |-> fq, looked |-> looked,
                           rank_score |-> NAdd(st.rank_score, ts.val),
                           contrib |-> Put(st.contrib, term, ts.val)])

\* the loop "for term in doc_query_set" over the terms still to visit; an
\* exception ends it
RECURSIVE TermLoop(_, _, _, _, _, _, _)
TermLoop(cls, self, query, doc_vector, doc_positions, terms, st) ==
    IF terms = <<>> \/ st.raised THEN st
    ELSE Eval(TermStep(cls, self, query, doc_vector, doc_positions,
                       Head(terms), st),
              LAMBDA next :
                TermLoop(cls, self, query, doc_vector, doc_positions,
                         Tail(terms), next))

\* the mutant of DocVectorMiss that never consults the cache
DocVectorAlwaysMiss(cache, doc_id) == TRUE

\* whether the call looks the document vector up in the index
DocVectorMiss(cache, doc_id) == doc_id \notin DOMAIN cache.dv

\* One call of score on the ranker with fields self and caches
\* cache = [dv, fq, ps], iterating sets in the order ord.  The result holds
\* the outcome (raised, val), the caches after the call and what the call did.
ScoreCall(cls, self, cache, ord, query, doc_id) ==
    LET dvmiss == DocVectorMiss(cache, doc_id)
        base == [raised |-> TRUE, val |-> Zero, dv |-> cache.dv,
                 fq |-> cache.fq, ps |-> cache.ps, dv_looked |-> dvmiss,
                 looked |-> <<>>, terms |-> {}, contrib |-> <<>>,
                 query_position |-> <<>>]
    IN  IF dvmiss /\ doc_id \notin DOMAIN IndexDocVectors
        THEN base
        ELSE
          LET doc_vector == IF dvmiss THEN IndexDocVectors[doc_id]
                            ELSE cache.dv[doc_id]
              dv == IF dvmiss THEN Put(cache.dv, doc_id, doc_vector)
                    ELSE cache.dv
              psmiss == cls = "custom" /\ doc_id \notin DOMAIN cache.ps
          IN  IF psmiss /\ doc_id \notin DOMAIN IndexTermPositions
              THEN [base EXCEPT !.dv = dv]
              ELSE
                LET doc_positions ==
                        IF cls # "custom" THEN <<>>
                        ELSE IF psmiss THEN IndexTermPositions[doc_id]
                        ELSE cache.ps[doc_id]
                    ps == IF psmiss THEN Put(cache.ps, doc_id, doc_positions)
                          ELSE cache.ps
                    doc_query_set == DocQuerySet(query, doc_vector)
                IN  Eval(TermLoop(cls, self, query, doc_vector, doc_positions,
                                  InOrder(ord, doc_query_set),
                                  [raised |-> FALSE, fq |-> cache.fq,
                                   looked |-> <<>>,
                                   rank_score |-> InitialRankScore,
                                   contrib |-> <<>>]),
                         LAMBDA st :
                           [raised |-> st.raised,
                            val |-> IF st.raised THEN Zero ELSE st.rank_score,
                            dv |-> dv, fq |-> st.fq, ps |-> ps,
                            dv_looked |-> dvmiss, looked |-> st.looked,
                            terms |-> doc_query_set, contrib |-> st.contrib,
                            query_position |->
                                IF cls = "custom" THEN QueryPosition(query)
                                ELSE <<>>])

-----------------------------------------------------------------------------
(* The ranker object as state, and one score call on it.                   *)

RankerClasses == {"plnr", "bm25", "custom"}

Self == [n_docs |-> n_docs, n_terms |-> n_terms, avg_dl |-> avg_dl]
Caches == [dv |-> docvec_cache, fq |-> freq_cache, ps |-> positions_cache]

NoCall == [called |-> FALSE, query |-> <<>>, doc_id |-> "", raised |-> FALSE,
           val |-> Zero, dv_looked |-> FALSE, looked |-> <<>>, terms |-> {},
           contrib |-> <<>>, query_position |-> <<>>]

\* the record of a call, from the result r of ScoreCall
CallRecord(query, doc_id, r) ==
    [called |-> TRUE, query |-> query, doc_id |-> doc_id, raised |-> r.raised,
     val |-> r.val, dv_looked |-> r.dv_looked, looked |-> r.looked,
     terms |-> r.terms, contrib |-> r.contrib,
     query_position |-> r.query_position]

ZeroCounts == [d \in DocIds |-> 0]

\* __init__ of the three classes: stats, n_docs, n_terms, avg_dl, empty caches
NewRanker(cls) ==
    /\ variant' = cls
    /\ n_docs' = IndexStats.documents
    /\ n_terms' = IndexStats.total_terms
    /\ avg_dl' = Fin(Quot(IndexStats.total_terms * Scale, IndexStats.documents))
    /\ docvec_cache' = <<>>
    /\ freq_cache' = <<>>
    /\ positions_cache' = <<>>

\* the queries the ranker specification passes to score
Queries ==
    { <<>>, <<"a">>, <<"b", "a">>, <<"a", "b", "a">>, <<"c", "b">>, <<"e">> }

TotalCalls == SumOver(score_calls, DocIds)

\* ranker.score(query, doc_id) called by a client of the ranker
Score ==
    /\ pc = "lib"
    /\ TotalCalls < MaxCalls
    /\ \E query \in Queries, doc_id \in DocIds :
          \E r \in {ScoreCall(variant, Self, Caches, hash_order, query, doc_id)} :
              /\ docvec_cache' = r.dv
              /\ freq_cache' = r.fq
              /\ positions_cache' = r.ps
              /\ docvec_lookups' = [docvec_lookups EXCEPT
                                      ![doc_id] = @ + (IF r.dv_looked THEN 1 ELSE 0)]
              /\ score_calls' = [score_calls EXCEPT ![doc_id] = @ + 1]
              /\ last' = CallRecord(query, doc_id, r)
    /\ UNCHANGED <<variant, n_docs, n_terms, avg_dl, hash_order, mainVars>>

-----------------------------------------------------------------------------
(* rank_query and sorted (main.py).                                        *)

\* str(i) of a document id of documents.csv
DocIdStr(i) == CASE i = 1 -> "1" [] i = 2 -> "2" [] i = 3 -> "3" [] i = 4 -> "4"

\* the loop body of rank_query for document i; acc carries the caches, the
\* counters, doc_score (with the order its keys were inserted in) and the
\* log of the score calls
RankStep(cls, self, ord, query, i, acc) ==
    Eval(ScoreCall(cls, self, acc.cache, ord, query, DocIdStr(i)),
         LAMBDA r :
           [cache |-> [dv |-> r.dv, fq |-> r.fq, ps |-> r.ps],
            doc_score |-> Put(acc.doc_score, i, IF r.raised THEN Zero ELSE r.val),
            order |-> IF i \in DOMAIN acc.doc_score THEN acc.order
                      ELSE Append(acc.order, i),
            log |-> Append(acc.log, [doc |-> i, raised |-> r.raised,
                                     val |-> r.val]),
            lookups |-> [acc.lookups EXCEPT ![DocIdStr(i)] =
                            @ + (IF r.dv_looked THEN 1 ELSE 0)],
            calls |-> [acc.calls EXCEPT ![DocIdStr(i)] = @ + 1],
            last |-> CallRecord(query, DocIdStr(i), r)])

\* the mutant of RankLoop in which a failing score call ends the loop
RECURSIVE RankLoopBreak(_, _, _, _, _, _)
RankLoopBreak(cls, self, ord, query, docs, acc) ==
    IF docs = <<>> \/ (acc.log # <<>> /\ acc.log[Len(acc.log)].raised) THEN acc
    ELSE Eval(RankStep(cls, self, ord, query, Head(docs), acc),
              LAMBDA next : RankLoopBreak(cls, self, ord, query, Tail(docs), next))

\* "for i in tqdm(doc_list)" over the documents still to visit
RECURSIVE RankLoop(_, _, _, _, _, _)
RankLoop(cls, self, ord, query, docs, acc) ==
    IF docs = <<>> THEN acc
    ELSE Eval(RankStep(cls, self, ord, query, Head(docs), acc),
              LAMBDA next : RankLoop(cls, self, ord, query, Tail(docs), next))

\* rank_query(ranker, query) over the global doc_list
RankQuery(cls, self, cache, ord, query, docs, lookups, calls, prev) ==
    RankLoop(cls, self, ord, query, docs,
             [cache |-> cache, doc_score |-> <<>>, order |-> <<>>, log |-> <<>>,
              lookups |-> lookups, calls |-> calls, last |-> prev])

Reverse(s) == [i \in 1..Len(s) |-> s[Len(s) + 1 - i]]

\* count_run of list.sort: length of the run at the head of s, from position i
RECURSIVE RunLength(_, _, _, _)
RunLength(s, key, i, descending) ==
    IF i > Len(s) THEN Len(s)
    ELSE IF NLt(key[s[i]], key[s[i - 1]]) = descending
         THEN RunLength(s, key, i + 1, descending)
         ELSE i - 1

\* the insertion point of binarysort for pivot within s[l+1 .. r]
RECURSIVE InsertionPoint(_, _, _, _, _)
InsertionPoint(s, key, pivot, l, r) ==
    IF l >= r THEN l
    ELSE LET p == l + ((r - l) \div 2)
         IN  IF NLt(key[pivot], key[s[p + 1]])
             THEN InsertionPoint(s, key, pivot, l, p)
             ELSE InsertionPoint(s, key, pivot, p + 1, r)

\* s with the item at position start moved to position l + 1
Insert(s, start, l) ==
    [j \in 1..Len(s) |->
        IF j <= l THEN s[j]
        ELSE IF j = l + 1 THEN s[start]
        ELSE IF j <= start THEN s[j - 1]
        ELSE s[j]]

\* binarysort of list.sort: s[1 .. start-1] is sorted, insert the rest
RECURSIVE BinarySort(_, _, _)
BinarySort(s, key, start) ==
    IF start > Len(s) THEN s
    ELSE Eval(Insert(s, start, InsertionPoint(s, key, s[start], 0, start - 1)),
              LAMBDA moved : BinarySort(moved, key, start + 1))

\* list.sort of fewer than 64 items: one run is counted, a strictly
\* descending run is reversed, the rest is inserted by binary insertion
ListSort(s, key) ==
    IF Len(s) < 2 THEN s
    ELSE LET descending == NLt(key[s[2]], key[s[1]])
             n == RunLength(s, key, 3, descending)
         IN  Eval(IF descending
                  THEN [j \in 1..Len(s) |-> IF j <= n THEN s[n + 1 - j] ELSE s[j]]
                  ELSE s,
                  LAMBDA run : BinarySort(run, key, n + 1))

\* sorted(doc_score, key=doc_score.get, reverse=True); keys is the dict's
\* iteration order
SortedReverse(keys, key) ==
    Eval(Reverse(keys), LAMBDA reversed :
        Eval(ListSort(reversed, key), LAMBDA sorted : Reverse(sorted)))

-----------------------------------------------------------------------------
(* The inputs of the script and its text processing.                       *)

\* a data row of the queries file; a missing description is read as a float nan
Row(id, words) == [QueryId |-> id, missing |-> FALSE, words |-> words]
RowWithoutDescription(id) == [QueryId |-> id, missing |-> TRUE, words |-> <<>>]

\* the queries files the model runs the script on
QueryFiles ==
    { <<Row("q1", <<"the", "bs">>), Row("q2", <<"A">>), Row("q3", <<"a-b", "c">>)>>,
      <<Row("q1", <<"A">>), RowWithoutDescription("q2"), Row("q3", <<"bs">>)>>,
      <<Row("q1", <<"A">>), Row("q2", <<"bs", "a", "bs">>), RowWithoutDescription("q3")>>,
      <<Row("q1", <<"e", "the">>)>>,
      <<Row("q1", <<"c">>), Row("q2", <<"the">>), Row("q3", <<"e", "A">>)>> }

\* the DocumentId columns the model runs the script on
DocLists == { <<1, 4, 2, 3>>, <<3, 2, 3, 1>> }

\* str.lower on a token
Lower(w) == IF w = "A" THEN "a" ELSE w

\* stopwords.words('english') + string.punctuation, as far as the inputs go
Stop == {"the", ","}

\* index_reader.analyze(w): the analyzed tokens of one word
Analyze(w) ==
    CASE w = "bs" -> <<"b">>
      [] w = "a-b" -> <<"a", "b">>
      [] OTHER -> <<w>>

\* main.py 69-73: lower-case, tokenize, drop stop words, analyze
RECURSIVE QueryStem(_)
QueryStem(words) ==
    IF words = <<>> THEN <<>>
    ELSE LET w == Lower(Head(words))
         IN  (IF w \in Stop THEN <<>> ELSE Analyze(w)) \o QueryStem(Tail(words))

Header == <<"queryid", "DocumentId">>

\* the lines main.py 77-78 write for one query
RECURSIVE Lines(_, _)
Lines(id, ranked) ==
    IF ranked = <<>> THEN <<>>
    ELSE <<<<id, DocIdStr(Head(ranked))>>>> \o Lines(id, Tail(ranked))

\* pd.read_csv(sys.argv[3]).iloc[1:]
LoadedQueries(rows) == IF rows = <<>> THEN <<>> ELSE Tail(rows)

-----------------------------------------------------------------------------
(* The script, main.py 28-78.                                              *)

\* main.py 30-42: argument count, index reader, documents
CheckArgs ==
    /\ pc = "start"
    /\ pc' = IF argc # 4 THEN "exit1" ELSE "index_loaded"
    /\ UNCHANGED <<rankerVars, obsVars, argc, ranker_option, queries_csv,
                   queries, qi, doc_list, doc_score, call_log, doc_ranked,
                   ranking_file>>

\* the mutant of KnownOption that lets every option through
KnownOptionAny(option) == TRUE

\* whether main.py 50-58 constructs a ranker for the option
KnownOption(option) == option \in RankerClasses

\* main.py 47-58: choose the ranker class or exit(1)
ChooseRanker ==
    /\ pc = "index_loaded"
    /\ IF KnownOption(ranker_option)
       THEN /\ NewRanker(ranker_option)
            /\ pc' = "ranker_ready"
       ELSE /\ pc' = "exit1"
            /\ UNCHANGED <<variant, n_docs, n_terms, avg_dl, docvec_cache,
                           freq_cache, positions_cache>>
    /\ UNCHANGED <<hash_order, obsVars, argc, ranker_option, queries_csv,
                   queries, qi, doc_list, doc_score, call_log, doc_ranked,
                   ranking_file>>

\* main.py 60-62
LoadQueries ==
    /\ pc = "ranker_ready"
    /\ queries' = LoadedQueries(queries_csv)
    /\ pc' = "queries_loaded"
    /\ UNCHANGED <<rankerVars, obsVars, argc, ranker_option, queries_csv, qi,
                   doc_list, doc_score, call_log, doc_ranked, ranking_file>>

\* main.py 64-65: open(..., "w") and the header line
WriteHeader ==
    /\ pc = "queries_loaded"
    /\ ranking_file' = [exists |-> TRUE, lines |-> <<Header>>]
    /\ pc' = "loop"
    /\ UNCHANGED <<rankerVars, obsVars, argc, ranker_option, queries_csv,
                   queries, qi, doc_list, doc_score, call_log, doc_ranked>>

\* main.py 67-78: one iteration of the loop over the queries; a row without
\* a description ends the script with an uncaught AttributeError
EvalQuery ==
    /\ pc = "loop"
    /\ qi < Len(queries)
    /\ LET row == queries[qi + 1]
       IN  IF row.missing
           THEN /\ pc' = "crashed"
                /\ UNCHANGED <<rankerVars, obsVars, qi, doc_score, call_log,
                               doc_ranked, ranking_file>>
           ELSE \E res \in {RankQuery(variant, Self, Caches, hash_order,
                                       QueryStem(row.words), doc_list,
                                       docvec_lookups, score_calls, last)} :
                \E ranked \in {SortedReverse(res.order, res.doc_score)} :
                    /\ docvec_cache' = res.cache.dv
                    /\ freq_cache' = res.cache.fq
                    /\ positions_cache' = res.cache.ps
                    /\ docvec_lookups' = res.lookups
                    /\ score_calls' = res.calls
                    /\ last' = res.last
                    /\ doc_score' = res.doc_score
                    /\ call_log' = res.log
                    /\ doc_ranked' = ranked
                    /\ ranking_file' = [ranking_file EXCEPT
                                          !.lines = @ \o Lines(row.QueryId, ranked)]
                    /\ qi' = qi + 1
                    /\ pc' = "loop"
                    /\ UNCHANGED <<variant, n_docs, n_terms, avg_dl, hash_order>>
    /\ UNCHANGED <<argc, ranker_option, queries_csv, queries, doc_list>>

\* the loop of main.py 67 is exhausted: the script ends
Finish ==
    /\ pc = "loop"
    /\ qi = Len(queries)
    /\ pc' = "done"
    /\ UNCHANGED <<rankerVars, obsVars, argc, ranker_option, queries_csv,
                   queries, qi, doc_list, doc_score, call_log, doc_ranked,
                   ranking_file>>

-----------------------------------------------------------------------------
(* Specifications.                                                         *)

NoRanker ==
    /\ variant = "none"
    /\ n_docs = 0
    /\ n_terms = 0
    /\ avg_dl = Zero
    /\ docvec_cache = <<>>
    /\ freq_cache = <<>>
    /\ positions_cache = <<>>

NoObservation ==
    /\ docvec_lookups = ZeroCounts
    /\ score_calls = ZeroCounts
    /\ last = NoCall

\* a run of the script on some command line and input files
Init ==
    /\ NoRanker
    /\ NoObservation
    /\ hash_order \in HashOrders
    /\ pc = "start"
    /\ argc \in {3, 4}
    /\ ranker_option \in RankerClasses \cup {"tfidf"}
    /\ queries_csv \in QueryFiles
    /\ doc_list \in DocLists
    /\ queries = <<>>
    /\ qi = 0
    /\ doc_score = <<>>
    /\ call_log = <<>>
    /\ doc_ranked = <<>>
    /\ ranking_file = [exists |-> FALSE, lines |-> <<>>]

Next ==
    \/ CheckArgs
    \/ ChooseRanker
    \/ LoadQueries
    \/ WriteHeader
    \/ EvalQuery
    \/ Finish

Spec == Init /\ [][Next]_vars

\* a ranker of any class, constructed over the index, and its clients' calls
InitRanker ==
    /\ variant \in RankerClasses
    /\ n_docs = IndexStats.documents
    /\ n_terms = IndexStats.total_terms
    /\ avg_dl = Fin(Quot(IndexStats.total_terms * Scale, IndexStats.documents))
    /\ docvec_cache = <<>>
    /\ freq_cache = <<>>
    /\ positions_cache = <<>>
    /\ NoObservation
    /\ hash_order \in HashOrders
    /\ pc = "lib"
    /\ argc = 0
    /\ ranker_option = ""
    /\ queries_csv = <<>>
    /\ doc_list = <<>>
    /\ queries = <<>>
    /\ qi = 0
    /\ doc_score = <<>>
    /\ call_log = <<>>
    /\ doc_ranked = <<>>
    /\ ranking_file = [exists |-> FALSE, lines |-> <<>>]

NextRanker == Score

SpecRanker == InitRanker /\ [][NextRanker]_vars

-----------------------------------------------------------------------------
(* Properties.                                                             *)

\* the position of the last entry of the log for document i
LastLogged(log, i) ==
    CHOOSE k \in DOMAIN log :
        log[k].doc = i /\ \A m \in DOMAIN log : log[m].doc = i => m <= k

\* C1: rank_query absorbs per-document failures.  After a rank_query, the
\* score calls it made are exactly the candidates of doc_list in order (a
\* failing call ends nothing), every candidate has an entry in doc_score,
\* the entry is 0 when its score call raised and the returned value otherwise.
C1_RankQueryAbsorbsFailures ==
    qi > 0 =>
        /\ Len(call_log) = Len(doc_list)
        /\ \A k \in DOMAIN call_log : call_log[k].doc = doc_list[k]
        /\ DOMAIN doc_score = Range(doc_list)
        /\ \A i \in Range(doc_list) :
              LET entry == call_log[LastLogged(call_log, i)]
              IN  doc_score[i] = IF entry.raised THEN Zero ELSE entry.val

\* a rank_query in which a score call raised and a later one returned a
\* value other than 0
C1_Witness ==
    /\ qi > 0
    /\ \E k \in DOMAIN call_log, m \in DOMAIN call_log :
          /\ k < m
          /\ call_log[k].raised
          /\ ~call_log[m].raised
          /\ call_log[m].val # Zero
          /\ doc_score[call_log[k].doc] = Zero
          /\ doc_score[call_log[m].doc] = call_log[m].val

\* C2 as stated: for every document id, in the index or not, once score
\* calls have referenced it, get_document_vector was invoked exactly once
\* for it.
C2_LookupExactlyOnce ==
    \A d \in DocIds : score_calls[d] >= 1 => docvec_lookups[d] = 1

\* C2 amended: a document id whose lookup succeeds is looked up exactly
\* once however many score calls reference it; a document id whose lookup
\* raises is never cached and is looked up once per score call.
C2_LookupOncePerStoredDocument ==
    \A d \in DocIds :
        score_calls[d] >= 1 =>
            docvec_lookups[d] = IF d \in DOMAIN IndexDocVectors THEN 1
                                ELSE score_calls[d]

\* two score calls referenced one document of the index
C2_Witness ==
    \E d \in DOMAIN IndexDocVectors :
        score_calls[d] = 2 /\ docvec_lookups[d] = 1 /\ d \in DOMAIN docvec_cache

\* C3: all-or-nothing output.  A run that has aborted has written nothing
\* to the ranking file.
C3_AllOrNothing ==
    pc \in {"crashed", "exit1"} => ~ranking_file.exists

\* C4: the ranked list is sorted by non-increasing score: for positions
\* i < j, score(ranked[i]) >= score(ranked[j]).
C4_RankedNonIncreasing ==
    \A i \in DOMAIN doc_ranked, j \in DOMAIN doc_ranked :
        i < j => NGeq(doc_score[doc_ranked[i]], doc_score[doc_ranked[j]])

\* whether the latest score call was on a document of the index that shares
\* no term with the query
NoCommonTerm ==
    /\ last.called
    /\ last.doc_id \in DOMAIN IndexDocVectors
    /\ Range(last.query) \cap DOMAIN IndexDocVectors[last.doc_id] = {}

\* C5: for every class of ranker, a score call whose query has no term in
\* common with the document vector returns 0, does not raise and makes no
\* term-stats lookup.
C5_NoCommonTermScoresZero ==
    NoCommonTerm =>
        /\ ~last.raised
        /\ last.val = Zero
        /\ last.looked = <<>>
        /\ last.contrib = <<>>

\* a score call with a non-empty query that shares no term with the document
C5_Witness ==
    /\ NoCommonTerm
    /\ last.query # <<>>
    /\ ~last.raised
    /\ last.val = Zero

\* the terms of the latest score call that were given a term_score and occur
\* exactly once in the document
SingletonTerms ==
    IF last.called /\ last.doc_id \in DOMAIN IndexDocVectors
    THEN {t \in DOMAIN last.contrib : IndexDocVectors[last.doc_id][t] = 1}
    ELSE {}

\* C6 as stated: in the pivoted and the custom ranker, a term whose
\* document term frequency is 1 adds a term_score of exactly zero.
C6_SingletonContributesZero ==
    variant \in {"plnr", "custom"} =>
        \A t \in SingletonTerms : last.contrib[t] = Zero

\* C6 amended: for a term of document term frequency 1 only the factor
\* ln(tf) is zero.  In the pivoted ranker norm_tf is then
\* 1 / (1 - b + b * doc_length / avg_dl) and the term_score is
\* qtf * norm_tf * idf.  In the custom ranker the lmd-weighted summand is
\* zero, or nan when its denominator is zero or nan, and the term_score is
\* what remains, (1 - lmd) * (ci * idf + sm), or nan.
C6_SingletonContribution ==
    \A t \in SingletonTerms :
        LET doc_vector == IndexDocVectors[last.doc_id]
            df == IndexTermCounts[t][1]
            cf == IndexTermCounts[t][2]
        IN  /\ variant = "plnr" =>
                last.contrib[t] =
                    NMul(NMul(FromInt(QueryCount(last.query, t)),
                              NDiv(One, LengthNorm(PlnrB, DocLength(doc_vector),
                                                   avg_dl))),
                         NLog(Fin(Quot((n_docs + 1) * Scale, df))))
            /\ variant = "custom" =>
                LET den == CustomDenominator(last.query, doc_vector,
                                             IndexTermPositions[last.doc_id], t)
                IN  last.contrib[t] =
                        IF den = NaN \/ den = Zero THEN NaN
                        ELSE CustomCollectionPart(df, cf, Self)

\* a score call of the pivoted ranker in which a term of document term
\* frequency 1 got a term_score that is a number other than zero
C6_Witness ==
    /\ variant = "plnr"
    /\ \E t \in SingletonTerms :
          last.contrib[t].k = "fin" /\ last.contrib[t].v > 0

\* the lines the claim C7 expects for the data row at position k
ExpectedBlock(k) ==
    {<<queries_csv[k].QueryId, DocIdStr(i)>> : i \in Range(doc_list)}

\* C7: when the script has ended, the ranking file holds the header once
\* and then, for every data row of the queries file in input order, one
\* line per candidate document id.
C7_EveryQueryHasItsBlock ==
    pc = "done" =>
        LET n == Cardinality(Range(doc_list))
            lines == ranking_file.lines
        IN  /\ Len(lines) = 1 + n * Len(queries_csv)
            /\ lines[1] = Header
            /\ \A k \in DOMAIN queries_csv :
                  {lines[1 + (k - 1) * n + j] : j \in 1..n} = ExpectedBlock(k)

\* C8: with a ranker option other than plnr, bm25, custom the run never gets
\* past the choice of the ranker: no queries are loaded, nothing is scored
\* and the ranking file is not created.
C8_UnknownOptionNoOutput ==
    ranker_option \notin {"plnr", "bm25", "custom"} =>
        /\ pc \in {"start", "index_loaded", "exit1"}
        /\ ~ranking_file.exists
        /\ queries = <<>>
        /\ qi = 0
        /\ ~last.called
        /\ variant = "none"

\* the run was given four arguments and an unknown option, and has exited
C8_Witness ==
    /\ pc = "exit1"
    /\ argc = 4
    /\ ranker_option = "tfidf"

\* what score(query, doc_id) yields on a ranker with the given caches
Outcome(cache, query, doc_id) ==
    LET r == ScoreCall(variant, Self, cache, hash_order, query, doc_id)
    IN  <<r.raised, r.val>>

\* every entry of the dict before is in the dict after, unchanged
Extends(after, before) ==
    \A k \in DOMAIN before : k \in DOMAIN after /\ after[k] = before[k]

ColdCaches == [dv |-> <<>>, fq |-> <<>>, ps |-> <<>>]

\* C9: the score call just made, made again on the ranker as it now is,
\* yields the identical outcome, and every score call yields on the caches
\* as they are what it yields on cold caches; a step changes nothing of the
\* ranker but the three caches, to which it only adds entries.
C9_ScoreIdempotent ==
    /\ [](last.called =>
            Outcome(Caches, last.query, last.doc_id) = <<last.raised, last.val>>)
    /\ [](\A query \in Queries, doc_id \in DocIds :
            Outcome(Caches, query, doc_id) = Outcome(ColdCaches, query, doc_id))
    /\ [][ /\ Extends(docvec_cache', docvec_cache)
           /\ Extends(freq_cache', freq_cache)
           /\ Extends(positions_cache', positions_cache)
           /\ UNCHANGED <<variant, n_docs, n_terms, avg_dl, hash_order>> ]_vars

\* a score call answered from warm caches with a value other than 0
C9_Witness ==
    /\ last.called
    /\ ~last.dv_looked
    /\ last.looked = <<>>
    /\ ~last.raised
    /\ last.val # Zero

\* the index (from 0) of the first occurrence of term in query
FirstIndex(query, term) ==
    (CHOOSE i \in DOMAIN query :
        query[i] = term /\ \A j \in DOMAIN query : query[j] = term => i <= j) - 1

\* the index (from 0) of the last occurrence of term in query
LastIndex(query, term) ==
    (CHOOSE i \in DOMAIN query :
        query[i] = term /\ \A j \in DOMAIN query : query[j] = term => j <= i) - 1

\* whether the latest score call was made on a custom ranker and got as far
\* as the query-position map
CustomCallWithMap ==
    /\ last.called
    /\ variant = "custom"
    /\ last.doc_id \in DOMAIN IndexDocVectors

\* C10 as stated: the query-position map of the custom ranker sends each
\* query term to the index of its first occurrence, and trp_q is that index
\* divided by the query length.
C10_PositionOfFirstOccurrence ==
    CustomCallWithMap =>
        \A t \in Range(last.query) :
            /\ last.query_position[t] = FirstIndex(last.query, t)
            /\ TrpQ(last.query, t) =
                   Fin(Quot(FirstIndex(last.query, t) * Scale, Len(last.query)))

\* C10 amended: the query-position map sends each query term to the index
\* of its last occurrence, and trp_q is that index divided by the query
\* length.
C10_PositionOfLastOccurrence ==
    CustomCallWithMap =>
        /\ DOMAIN last.query_position = Range(last.query)
        /\ \A t \in Range(last.query) :
              /\ last.query_position[t] = LastIndex(last.query, t)
              /\ TrpQ(last.query, t) =
                     Fin(Quot(LastIndex(last.query, t) * Scale, Len(last.query)))

\* a custom score call that returned, on a query that repeats a term of the
\* document
C10_Witness ==
    /\ CustomCallWithMap
    /\ ~last.raised
    /\ \E t \in last.terms :
          FirstIndex(last.query, t) # LastIndex(last.query, t)

====
